---- MODULE Spec2Model ----
(***************************************************************************)
(* The Button Men game server (src/unnamed/part_000, the revision that     *)
(* keeps captured lists, lines 333-505): the registry `games`, the         *)
(* request handlers createGame, joinGame and performAttack, and the        *)
(* dispatcher of Bun.serve's fetch.                                        *)
(*                                                                         *)
(* A request is first received (it is in flight: `req`) and then handled   *)
(* by one step that runs the whole handler and leaves its answer in        *)
(* `resp`.  Indices are 0-based as in the JavaScript; pools are TLA+       *)
(* sequences, so the die at index i of pool p is p[i + 1].                 *)
(*                                                                         *)
(* Spec is the server as it is.  Its clock `now` stands still, so every    *)
(* createGame hands out the same id, as two calls within one millisecond   *)
(* do.  SpecWithPass adds the pass of the game contract that App.jsx       *)
(* posts to: the contract is not part of the sources, and its pass is      *)
(* modelled from the specification on the server's game object.            *)
(* SpecOverlapping lets attack handlers overlap at their one await.        *)
(* SpecPage adds the game page of src/App.jsx with its selections, and     *)
(* SpecPolling the page's periodic status requests and their answers.      *)
(***************************************************************************)
EXTENDS Integers, Sequences, FiniteSets, TLC

VARIABLES games, now, req, resp, handlers, client, polls

\* the state of the game page in the browser
browser == <<client, polls>>

vars == <<games, now, req, resp, handlers, client, polls>>

----------------------------------------------------------------------------
(* Bounds of the model *)

\* Math.random() yields one of the fractions n / RandomGrain, 0 <= n < RandomGrain
RandomGrain == 2
\* requests name the die indices 0..MaxIndex (an index is out of range once the
\* pool it refers to has shrunk to it, or is empty)
MaxIndex == 1
\* attackerDieIndices holds at most MaxSel indices
MaxSel == 2
\* at most MaxInFlight attack handlers wait for their request body at a time
MaxInFlight == 2
\* attack handlers overlap only in games with fewer than MaxOverlapDepth captures
MaxOverlapDepth == 2
\* the game page is followed while fewer than MaxPageDepth dice are captured
MaxPageDepth == 2
\* at most MaxPolls status requests of the page are in flight at a time
MaxPolls == 2

----------------------------------------------------------------------------
(* Values *)

\* JavaScript's null: an empty player slot, a missing X-Player-Id header
NULL == "null"

\* the face counts both createGame and joinGame roll
StartingDice == <<4, 6, 8, 10, 20>>

\* the outcomes of Math.random() the model draws, as numerators over RandomGrain
RandomUnits == 0 .. (RandomGrain - 1)

\* rollDie: value = Math.ceil(Math.random() * size), Math.random() = u / RandomGrain
rollDie(size, u) ==
    [size |-> size, value |-> (u * size + RandomGrain - 1) \div RandomGrain]

\* [4, 6, 8, 10, 20].map(rollDie): us[i] is the random draw of the i-th die
rollPool(us) == [i \in 1 .. Len(StartingDice) |-> rollDie(StartingDice[i], us[i])]

PoolDraws == [1 .. Len(StartingDice) -> RandomUnits]

\* Array.prototype.indexOf on the two-slot players array: 0, 1 or -1
indexOf(players, playerId) ==
    IF players[1] = playerId THEN 0
    ELSE IF players[2] = playerId THEN 1
    ELSE -1

\* Array.prototype.includes on the players array
includes(players, playerId) == players[1] = playerId \/ players[2] = playerId

\* array[index] is defined (an index outside the array reads undefined)
InRange(arr, index) == index >= 0 /\ index < Len(arr)

\* a removal that blanks the slot instead of removing it
spliceBlank(arr, index) == [arr EXCEPT ![index + 1] = [size |-> 0, value |-> 0]]

\* array.splice(index, 1)
splice(arr, index) ==
    [i \in 1 .. (Len(arr) - 1) |-> IF i <= index THEN arr[i] ELSE arr[i + 1]]

----------------------------------------------------------------------------
(* The registry and the requests *)

NoReq == [op |-> "none"]
NoResp == [op |-> "none"]

\* a die index that is null or undefined: it is a position of no pool
NoIndex == -1

\* the page's gameState before the first answer arrived (null: "Loading...")
Loading == [message |-> "Loading..."]

\* a game id no createGame has handed out
UnknownGameId == -1

GameIds == DOMAIN games

PlayerIds == {"a", "b"}

\* the X-Player-Id header of a request: a player, or missing
Callers == PlayerIds \cup {NULL}

\* the creator of the model's games
Creators == {"a"}

DieIndices == 0 .. MaxIndex

RECURSIVE SeqsUpTo(_, _)
SeqsUpTo(S, n) ==
    IF n = 0 THEN {<<>>}
    ELSE LET shorter == SeqsUpTo(S, n - 1)
         IN  shorter \cup {Append(s, x) : s \in {t \in shorter : Len(t) = n - 1}, x \in S}

\* the attackerDieIndices of the requests, in non-decreasing order: the order of
\* the indices changes neither their sum nor the dice that are rerolled
Selections ==
    {sel \in SeqsUpTo(DieIndices, MaxSel) :
        \A k \in 1 .. (Len(sel) - 1) : sel[k] <= sel[k + 1]}

Request(op, gameId, playerId, sel, d) ==
    [op |-> op, gameId |-> gameId, playerId |-> playerId,
     attackerDieIndices |-> sel, defenderDieIndex |-> d]

\* the requests the clients send
Requests ==
    {Request("create", UnknownGameId, p, <<>>, 0) : p \in Creators}
    \cup {Request("join", g, p, <<>>, 0) : g \in GameIds \cup {UnknownGameId}, p \in Callers}
    \cup {Request("attack", g, p, sel, d) :
            g \in GameIds, p \in PlayerIds, sel \in Selections, d \in DieIndices}
    \cup {Request("attack", g, NULL, sel, 0) : g \in GameIds, sel \in {<<>>, <<0>>}}
    \cup {Request("attack", UnknownGameId, p, <<0>>, 0) : p \in Callers}
    \cup {Request(op, g, p, <<>>, 0) :
            op \in {"pass", "startNextRound"}, g \in GameIds, p \in PlayerIds}

\* the status of the answer: 404 from the switch's default branch; 500 when the
\* handler throws (joinGame's Errors, performAttack's TypeError), since fetch
\* catches nothing around them; 200 for every value a handler returns
statusOf(op, message) ==
    IF message = "Action not found" THEN 404
    ELSE IF message = "TypeError" \/ (op = "join" /\ message # "joined") THEN 500
    ELSE 200

Response(r, message) ==
    [op |-> r.op, message |-> message, nsel |-> Len(r.attackerDieIndices),
     status |-> statusOf(r.op, message)]

----------------------------------------------------------------------------
(* createGame *)

\* a createGame that rolls a pool for the empty slot too
newGameBothPools(playerId, us) ==
    [players |-> <<playerId, NULL>>,
     currentPlayer |-> 0,
     dice |-> <<rollPool(us), rollPool(us)>>,
     captured |-> <<<<>>, <<>>>>]

newGame(playerId, us) ==
    [players |-> <<playerId, NULL>>,
     currentPlayer |-> 0,
     dice |-> <<rollPool(us), <<>>>>,
     captured |-> <<<<>>, <<>>>>]

\* games[newGameId] = {...}, newGameId = `game_${Date.now()}`
createGame(playerId, us) ==
    [id \in GameIds \cup {now} |-> IF id = now THEN newGame(playerId, us) ELSE games[id]]

----------------------------------------------------------------------------
(* joinGame *)

joinGameError(gameId, playerId) ==
    IF gameId \notin GameIds THEN "Game not found"
    ELSE IF includes(games[gameId].players, playerId) THEN "Player has already joined"
    ELSE IF indexOf(games[gameId].players, NULL) = -1 THEN "Game is full"
    ELSE "none"

\* a join that rolls a new pool for both slots
joinedGameRollsBoth(game, playerId, us) ==
    LET playerIndex == indexOf(game.players, NULL)
    IN  [game EXCEPT !.players[playerIndex + 1] = playerId,
                     !.dice = <<rollPool(us), rollPool(us)>>]

joinedGame(game, playerId, us) ==
    LET playerIndex == indexOf(game.players, NULL)
    IN  [game EXCEPT !.players[playerIndex + 1] = playerId,
                     !.dice[playerIndex + 1] = rollPool(us)]

----------------------------------------------------------------------------
(* performAttack *)

RECURSIVE attackValueOf(_, _)
\* attackerDieIndices.reduce((acc, index) => acc + attackerDice[index].value, 0)
attackValueOf(attackerDice, sel) ==
    IF sel = <<>> THEN 0
    ELSE attackerDice[Head(sel) + 1].value + attackValueOf(attackerDice, Tail(sel))

\* a power attack that needs a strictly greater value
attackSucceedsStrict(n, attackValue, defenderValue) ==
    IF n = 1 THEN attackValue > defenderValue
    ELSE attackValue = defenderValue

\* a skill attack that succeeds with any sum that reaches the defender's value
attackSucceedsAtLeast(n, attackValue, defenderValue) ==
    attackValue >= defenderValue

\* power attack: one index; skill attack: any other number of indices
attackSucceeds(n, attackValue, defenderValue) ==
    IF n = 1 THEN attackValue >= defenderValue
    ELSE attackValue = defenderValue

RECURSIVE rerollFirst(_, _, _)
\* a reroll loop that uses the position in attackerDieIndices as the die index
rerollFirst(attackerDice, sel, us) ==
    IF sel = <<>> THEN attackerDice
    ELSE rerollFirst([attackerDice EXCEPT ![Len(sel)] = rollDie(@.size, Head(us))],
                     Tail(sel), Tail(us))

RECURSIVE rerollAll(_, _, _)
\* attackerDieIndices.forEach(index => attackerDice[index] = rollDie(attackerDice[index].size))
rerollAll(attackerDice, sel, us) ==
    IF sel = <<>> THEN attackerDice
    ELSE rerollAll([attackerDice EXCEPT ![Head(sel) + 1] = rollDie(@.size, Head(us))],
                   Tail(sel), Tail(us))

\* the next player: (game.currentPlayer + 1) % 2
nextPlayer(currentPlayer) == (currentPlayer + 1) % 2

\* reading attackerDice[index].value or defenderDice[defenderDieIndex].value of an
\* index outside the array throws a TypeError
attackThrows(game, sel, d) ==
    \/ \E k \in 1 .. Len(sel) : ~InRange(game.dice[(game.currentPlayer % 2) + 1], sel[k])
    \/ ~InRange(game.dice[nextPlayer(game.currentPlayer) + 1], d)

\* a capture that records the die's value instead of its size
attackedGameScoresValue(game, currentPlayerIndex, sel, d, us) ==
    LET att == (game.currentPlayer % 2) + 1
        def == nextPlayer(game.currentPlayer) + 1
    IN  [game EXCEPT
            !.captured[currentPlayerIndex + 1] = Append(@, game.dice[def][d + 1].value),
            !.dice[def] = splice(@, d),
            !.dice[att] = rerollAll(@, sel, us),
            !.currentPlayer = nextPlayer(@)]

\* a successful attack that does not switch players
attackedGameKeepsTurn(game, currentPlayerIndex, sel, d, us) ==
    LET att == (game.currentPlayer % 2) + 1
        def == nextPlayer(game.currentPlayer) + 1
    IN  [game EXCEPT
            !.captured[currentPlayerIndex + 1] = Append(@, game.dice[def][d + 1].size),
            !.dice[def] = splice(@, d),
            !.dice[att] = rerollAll(@, sel, us)]

\* a capture that records the size of the defender's first die
attackedGameCapturesFirst(game, currentPlayerIndex, sel, d, us) ==
    LET att == (game.currentPlayer % 2) + 1
        def == nextPlayer(game.currentPlayer) + 1
    IN  [game EXCEPT
            !.captured[currentPlayerIndex + 1] = Append(@, game.dice[def][1].size),
            !.dice[def] = splice(@, d),
            !.dice[att] = rerollAll(@, sel, us),
            !.currentPlayer = nextPlayer(@)]

\* the game after a successful attack
attackedGame(game, currentPlayerIndex, sel, d, us) ==
    LET att == (game.currentPlayer % 2) + 1
        def == nextPlayer(game.currentPlayer) + 1
    IN  [game EXCEPT
            !.captured[currentPlayerIndex + 1] = Append(@, game.dice[def][d + 1].size),
            !.dice[def] = splice(@, d),
            !.dice[att] = rerollAll(@, sel, us),
            !.currentPlayer = nextPlayer(@)]

\* performAttack without its turn check
attackMessageAnyCaller(gameId, playerId, sel, d) ==
    IF gameId \notin GameIds THEN "Game not found"
    ELSE LET game == games[gameId]
         IN  IF attackThrows(game, sel, d) THEN "TypeError"
             ELSE IF attackSucceeds(Len(sel),
                        attackValueOf(game.dice[(game.currentPlayer % 2) + 1], sel),
                        game.dice[nextPlayer(game.currentPlayer) + 1][d + 1].value)
                THEN "Attack successful"
             ELSE "Attack failed"

\* the message of performAttack on a registry, "TypeError" when it throws
attackMessageIn(registry, gameId, playerId, sel, d) ==
    IF gameId \notin DOMAIN registry THEN "Game not found"
    ELSE LET game == registry[gameId]
         IN  IF game.currentPlayer # indexOf(game.players, playerId)
                THEN "It is not your turn"
             ELSE IF attackThrows(game, sel, d) THEN "TypeError"
             ELSE IF attackSucceeds(Len(sel),
                        attackValueOf(game.dice[(game.currentPlayer % 2) + 1], sel),
                        game.dice[nextPlayer(game.currentPlayer) + 1][d + 1].value)
                THEN "Attack successful"
             ELSE "Attack failed"

\* the message of performAttack, "TypeError" when it throws
attackMessage(gameId, playerId, sel, d) == attackMessageIn(games, gameId, playerId, sel, d)

----------------------------------------------------------------------------
(* getOpenGames *)

\* the ids of the entries of games whose players array includes null
getOpenGames == {gameId \in GameIds : includes(games[gameId].players, NULL)}

----------------------------------------------------------------------------
(* pass: the contract App.jsx posts to; the server above has no such route *)

RECURSIVE SumOver(_, _)
\* the sum of the values of the dice of pool at the 0-based indices in S
SumOver(pool, S) ==
    IF S = {} THEN 0
    ELSE LET i == CHOOSE x \in S : TRUE
         IN  pool[i + 1].value + SumOver(pool, S \ {i})

\* an attack with the non-empty set S of the current player's dice on the
\* defender die d is legal: power with one die, skill with more
legalAttack(game, S, d) ==
    LET attackerDice == game.dice[(game.currentPlayer % 2) + 1]
        defenderDice == game.dice[nextPlayer(game.currentPlayer) + 1]
    IN  IF Cardinality(S) = 1
          THEN SumOver(attackerDice, S) >= defenderDice[d + 1].value
          ELSE SumOver(attackerDice, S) = defenderDice[d + 1].value

\* a pass rule that overlooks skill attacks
isPassAllowedPowerOnly(game) ==
    ~ \E i \in 0 .. (Len(game.dice[(game.currentPlayer % 2) + 1]) - 1) :
        \E d \in 0 .. (Len(game.dice[nextPlayer(game.currentPlayer) + 1]) - 1) :
            legalAttack(game, {i}, d)

\* is_pass_allowed: the current player has no legal attack on any defender die
\* with any non-empty subset of their dice
isPassAllowed(game) ==
    ~ \E S \in SUBSET (0 .. (Len(game.dice[(game.currentPlayer % 2) + 1]) - 1)) :
        /\ S # {}
        /\ \E d \in 0 .. (Len(game.dice[nextPlayer(game.currentPlayer) + 1]) - 1) :
              legalAttack(game, S, d)

passMessage(gameId, playerId) ==
    IF gameId \notin GameIds THEN "GameNotFound"
    ELSE IF games[gameId].currentPlayer # indexOf(games[gameId].players, playerId)
        THEN "NotYourTurn"
    ELSE IF ~isPassAllowed(games[gameId]) THEN "PassNotAllowed"
    ELSE "passed"

passedGame(game) == [game EXCEPT !.currentPlayer = nextPlayer(@)]

----------------------------------------------------------------------------
(* The state machine *)

Init ==
    /\ games = <<>>
    /\ now = 0
    /\ req = NoReq
    /\ resp = NoResp
    /\ handlers = <<>>
    /\ client = [gameState |-> Loading, selectedDice |-> <<>>, selectedDefenderDie |-> NoIndex]
    /\ polls = [sent |-> 0, produced |-> <<>>, wentBack |-> FALSE]

\* a request arrives at the server
Receive ==
    /\ req = NoReq
    /\ \E r \in Requests : req' = r
    /\ resp' = NoResp
    /\ handlers' = <<>>
    /\ UNCHANGED <<games, now, browser>>

\* POST /api/games
HandleCreate ==
    /\ req.op = "create"
    /\ \E us \in PoolDraws : games' = createGame(req.playerId, us)
    /\ resp' = Response(req, "created")
    /\ req' = NoReq
    /\ UNCHANGED <<now, handlers, browser>>

\* POST /api/games/:gameId/join
HandleJoin ==
    /\ req.op = "join"
    /\ LET err == joinGameError(req.gameId, req.playerId)
       IN  IF err # "none"
             THEN /\ games' = games
                  /\ resp' = Response(req, err)
             ELSE /\ \E us \in PoolDraws :
                        games' = [games EXCEPT ![req.gameId] = joinedGame(@, req.playerId, us)]
                  /\ resp' = Response(req, "joined")
    /\ req' = NoReq
    /\ UNCHANGED <<now, handlers, browser>>

\* POST /api/games/:gameId/attack
HandleAttack ==
    /\ req.op = "attack"
    /\ LET message == attackMessage(req.gameId, req.playerId,
                                    req.attackerDieIndices, req.defenderDieIndex)
       IN  /\ resp' = Response(req, message)
           /\ IF message = "Attack successful"
                THEN \E us \in [1 .. Len(req.attackerDieIndices) -> RandomUnits] :
                        games' = [games EXCEPT ![req.gameId] =
                                    attackedGame(@, indexOf(@.players, req.playerId),
                                                 req.attackerDieIndices,
                                                 req.defenderDieIndex, us)]
                ELSE games' = games
    /\ req' = NoReq
    /\ UNCHANGED <<now, handlers, browser>>

\* POST /api/games/:gameId/<any other action>: the switch's default branch
HandleDefault(actions) ==
    /\ req.op \in actions
    /\ resp' = Response(req, "Action not found")
    /\ req' = NoReq
    /\ UNCHANGED <<games, now, handlers, browser>>

Next ==
    \/ Receive
    \/ HandleCreate
    \/ HandleJoin
    \/ HandleAttack
    \/ HandleDefault({"pass", "startNextRound"})

Spec == Init /\ [][Next]_vars

\* POST .../pass, answered by the game contract
HandlePass ==
    /\ req.op = "pass"
    /\ LET message == passMessage(req.gameId, req.playerId)
       IN  /\ resp' = Response(req, message)
           /\ games' = IF message = "passed"
                          THEN [games EXCEPT ![req.gameId] = passedGame(@)]
                          ELSE games
    /\ req' = NoReq
    /\ UNCHANGED <<now, handlers, browser>>

\* the server's game with the contract's pass in place of the missing route
NextWithPass ==
    \/ Receive
    \/ HandleCreate
    \/ HandleJoin
    \/ HandleAttack
    \/ HandlePass
    \/ HandleDefault({"startNextRound"})

SpecWithPass == Init /\ [][NextWithPass]_vars

----------------------------------------------------------------------------
(* Overlapping attack handlers.  fetch is async: the handler of an attack  *)
(* request runs up to `await request.json()`, and performAttack runs when  *)
(* the body has arrived; handlers of other requests run in between.        *)
(* `handlers` holds, in the order of arrival, the attack handlers of the   *)
(* requests that overlap: each with its request, the registry as it was    *)
(* when the handler reached the await, and its answer once it has one.     *)
(* Answered handlers stay in `handlers` until the next request arrives.    *)

NoAnswer == [message |-> NULL]

Pending == {k \in 1 .. Len(handlers) : handlers[k].answer = NoAnswer}

\* the attack requests that overlap: power and skill attacks of either player
\* with the first dice of the pools
OverlappingAttacks ==
    {Request("attack", g, p, sel, 0) : g \in GameIds, p \in PlayerIds, sel \in {<<0>>, <<0, 1>>}}

\* a handler that works on the registry as it was before the await
registryAtAwait(seen, current) == seen

\* const game = games[gameId] runs inside performAttack, after the await: it
\* reads the registry as it is when the handler resumes
registryAtResume(seen, current) == current

\* a request arrives and its handler runs up to `await request.json()`
Await ==
    /\ req = NoReq
    /\ \/ Pending = {}
       \/ Pending = 1 .. Len(handlers) /\ Len(handlers) < MaxInFlight
    /\ \E r \in OverlappingAttacks :
          /\ games[r.gameId].players[2] # NULL
          /\ Len(games[r.gameId].captured[1]) + Len(games[r.gameId].captured[2])
                < MaxOverlapDepth
          /\ handlers' = Append(IF Pending = {} THEN <<>> ELSE handlers,
                                [request |-> r, seen |-> games, answer |-> NoAnswer])
    /\ resp' = NoResp
    /\ UNCHANGED <<games, now, req, browser>>

\* the body of a waiting request has arrived: its handler runs performAttack
\* and answers
Resume ==
    \E k \in Pending :
        LET r == handlers[k].request
            registry == registryAtResume(handlers[k].seen, games)
            message == attackMessageIn(registry, r.gameId, r.playerId,
                                       r.attackerDieIndices, r.defenderDieIndex)
        IN  /\ resp' = Response(r, message)
            /\ handlers' = [handlers EXCEPT ![k].answer = Response(r, message)]
            /\ IF message = "Attack successful"
                 THEN \E us \in [1 .. Len(r.attackerDieIndices) -> RandomUnits] :
                         games' = [registry EXCEPT ![r.gameId] =
                                     attackedGame(@, indexOf(@.players, r.playerId),
                                                  r.attackerDieIndices,
                                                  r.defenderDieIndex, us)]
                 ELSE games' = registry
            /\ UNCHANGED <<now, req, browser>>

\* games are set up by creates and joins handled one at a time; attacks overlap
NextOverlapping ==
    \/ Pending = {} /\ Receive /\ req'.op \in {"create", "join"}
    \/ HandleCreate
    \/ HandleJoin
    \/ Await
    \/ Resume

SpecOverlapping == Init /\ [][NextOverlapping]_vars

----------------------------------------------------------------------------
(* The game page of src/App.jsx (Game, lines 95-185), open in the browser  *)
(* of one player.  `client` holds its React state: gameState (the last     *)
(* snapshot usePolling stored), selectedDice and selectedDefenderDie.  The *)
(* page's attack is resolved by performAttack above; the snapshot's        *)
(* current_player is the game's currentPlayer.                             *)

\* the player whose browser shows the page, and the opponent
PagePlayer == "b"
Opponent == "a"

\* the games whose page the player has open: those the player is in
PageGames == {g \in GameIds : includes(games[g].players, PagePlayer)}

\* setSelectedDice([]) after the attack was sent
resetSelection(selectedDice) == <<>>

\* the indices of the snapshot's players array that renderDice is called for:
\* the player's own, and the other one unless its slot is empty
rendered(gameState) ==
    LET currentPlayerIndex == indexOf(gameState.players, PagePlayer)
        otherPlayerIndex == (currentPlayerIndex + 1) % 2
    IN  {currentPlayerIndex} \cup
        (IF gameState.players[otherPlayerIndex + 1] = NULL THEN {} ELSE {otherPlayerIndex})

\* the dice of a rendered pool the player clicks: its first and its last
clicked(pool) == {0, Len(pool) - 1} \cap (0 .. (Len(pool) - 1))

\* selectDieForAttack: add the index to selectedDice, or remove it
selectDieForAttack(prev, index) ==
    IF \E k \in 1 .. Len(prev) : prev[k] = index
      THEN SelectSeq(prev, LAMBDA i : i # index)
      ELSE Append(prev, index)

\* usePolling with its request answered at once: setData(await get(url))
Refresh ==
    /\ \E g \in PageGames :
          /\ Len(games[g].captured[1]) + Len(games[g].captured[2]) < MaxPageDepth
          /\ client.gameState # games[g]
          /\ client' = [client EXCEPT !.gameState = games[g]]
    /\ UNCHANGED <<games, now, req, resp, handlers, polls>>

\* the onClick of a die button of renderDice
ClickDie ==
    /\ client.gameState # Loading
    /\ \E p \in rendered(client.gameState) :
          \E index \in clicked(client.gameState.dice[p + 1]) :
             LET isActive == client.gameState.currentPlayer = p
             IN  IF ~isActive
                   THEN client' = [client EXCEPT !.selectedDefenderDie = index]
                   ELSE /\ Len(selectDieForAttack(client.selectedDice, index)) <= MaxSel
                        /\ client' = [client EXCEPT
                                !.selectedDice = selectDieForAttack(@, index)]
    /\ client' # client
    /\ UNCHANGED <<games, now, req, resp, handlers, polls>>

\* the onClick of the Attack button (performAttack of the page), enabled when
\* the snapshot's player to move is the page's player
PressAttack ==
    /\ req = NoReq
    /\ client.gameState # Loading
    /\ client.gameState.players[client.gameState.currentPlayer + 1] = PagePlayer
    /\ client.selectedDice # <<>>
    /\ \E g \in PageGames :
          /\ Len(games[g].captured[1]) + Len(games[g].captured[2]) < MaxPageDepth
          /\ req' = Request("attack", g, PagePlayer,
                            client.selectedDice, client.selectedDefenderDie)
    /\ client' = [client EXCEPT !.selectedDice = resetSelection(@),
                                !.selectedDefenderDie = NoIndex]
    /\ resp' = NoResp
    /\ UNCHANGED <<games, now, handlers, polls>>

\* the requests that reach the server besides the page's: the create and the
\* joins of one game, and the opponent's power attacks with the first die on
\* the first die
NextPage ==
    \/ /\ Receive
       /\ \/ req'.op = "create" /\ games = <<>>
          \/ req'.op = "join"
          \/ /\ req'.op = "attack" /\ req'.playerId = Opponent
             /\ req'.gameId \in GameIds
             /\ req'.attackerDieIndices = <<0>> /\ req'.defenderDieIndex = 0
             /\ Len(games[req'.gameId].captured[1]) + Len(games[req'.gameId].captured[2])
                   < MaxPageDepth
    \/ HandleCreate
    \/ HandleJoin
    \/ HandleAttack
    \/ Refresh
    \/ ClickDie
    \/ PressAttack

SpecPage == Init /\ [][NextPage]_vars

----------------------------------------------------------------------------
(* usePolling (src/App.jsx:49-65): every intervalMs the page sends a       *)
(* status request, whether or not an earlier one was answered, and stores  *)
(* each answer when it arrives.  polls.sent counts the requests the server *)
(* has not answered yet; polls.produced holds the answers on their way to  *)
(* the page, in the order the server produced them, each marked `older`    *)
(* once an answer produced after it has been stored; polls.wentBack tells  *)
(* that the last answer stored was such an older one and differed from the *)
(* snapshot it replaced.                                                   *)

\* getGameStatus
getGameStatus(gameId) ==
    IF gameId \notin GameIds THEN [message |-> "Game not found"] ELSE games[gameId]

\* the answers still on their way after the k-th one arrived
remaining(produced, k) ==
    [i \in 1 .. (Len(produced) - 1) |->
        IF i < k THEN [produced[i] EXCEPT !.older = TRUE] ELSE produced[i + 1]]

\* setData(data): whatever answer arrives replaces the snapshot
delivered(held, answer) == answer.data

\* load() of usePolling sends its request
IssuePoll ==
    /\ GameIds # {}
    /\ polls.sent + Len(polls.produced) < MaxPolls
    /\ polls' = [polls EXCEPT !.sent = @ + 1]
    /\ UNCHANGED <<games, now, req, resp, handlers, client>>

\* the server answers a status request of the page
ServeStatus ==
    /\ polls.sent > 0
    /\ \E g \in GameIds :
          polls' = [polls EXCEPT
                      !.sent = @ - 1,
                      !.produced = Append(@, [data |-> getGameStatus(g), older |-> FALSE])]
    /\ UNCHANGED <<games, now, req, resp, handlers, client>>

\* an answer arrives at the page: the continuation of load() stores it
Deliver ==
    \E k \in 1 .. Len(polls.produced) :
        LET answer == polls.produced[k]
            data == delivered(client.gameState, answer)
        IN  /\ client' = [client EXCEPT !.gameState = data]
            /\ polls' = [polls EXCEPT
                          !.produced = remaining(@, k),
                          !.wentBack = answer.older /\ data # client.gameState]
            /\ UNCHANGED <<games, now, req, resp, handlers>>

\* one game is created and joined while the page polls
NextPolling ==
    \/ /\ Receive
       /\ \/ req'.op = "create" /\ games = <<>>
          \/ req'.op = "join"
    \/ HandleCreate
    \/ HandleJoin
    \/ IssuePoll
    \/ ServeStatus
    \/ Deliver

SpecPolling == Init /\ [][NextPolling]_vars

----------------------------------------------------------------------------
(* Vocabulary of the properties.  In a step that handles a request, the     *)
(* unprimed variables are the request and the registry just before the     *)
(* handler ran; the primed ones are the registry and the answer after it.  *)

\* this step handles the pending request, whose action is op
Handles(op) == req.op = op /\ req' = NoReq

\* the slot (1 or 2) of the player to move, and of the opponent
AttackerSlot(game) == game.currentPlayer + 1
DefenderSlot(game) == 2 - game.currentPlayer

\* request r is sent by the identity in the slot at currentPlayer of an existing game
ByPlayerToMove(r) ==
    /\ r.gameId \in GameIds
    /\ games[r.gameId].players[AttackerSlot(games[r.gameId])] = r.playerId

\* every attacker index of r is a position of the attacker's pool, and the
\* defender index is a position of the defender's pool
ValidIndices(r) ==
    LET game == games[r.gameId]
    IN  /\ \A k \in 1 .. Len(r.attackerDieIndices) :
              r.attackerDieIndices[k] \in 0 .. (Len(game.dice[AttackerSlot(game)]) - 1)
        /\ r.defenderDieIndex \in 0 .. (Len(game.dice[DefenderSlot(game)]) - 1)

RECURSIVE SumOfValues(_, _)
\* the sum of the values of the dice of pool that sel names
SumOfValues(pool, sel) ==
    IF Len(sel) = 0 THEN 0
    ELSE pool[sel[Len(sel)] + 1].value + SumOfValues(pool, SubSeq(sel, 1, Len(sel) - 1))

\* the value of the defender die request r names
DefenderValue(r) ==
    games[r.gameId].dice[DefenderSlot(games[r.gameId])][r.defenderDieIndex + 1].value

\* the value the attacker dice of request r add up to
AttackerValue(r) ==
    SumOfValues(games[r.gameId].dice[AttackerSlot(games[r.gameId])], r.attackerDieIndices)

\* after is before without the entry at 0-based index d
RemovedAt(before, after, d) ==
    /\ Len(after) = Len(before) - 1
    /\ \A i \in 1 .. Len(after) : after[i] = IF i <= d THEN before[i] ELSE before[i + 1]

\* the number of dice in the pools and in the captured lists of a game
DiceInPools(game) == Len(game.dice[1]) + Len(game.dice[2])
DiceCaptured(game) == Len(game.captured[1]) + Len(game.captured[2])

Succeeded == resp'.message = "Attack successful"

\* every die of the game shows at least 1
NoZeroValue(game) ==
    \A slot \in 1 .. 2 : \A i \in 1 .. Len(game.dice[slot]) : game.dice[slot][i].value >= 1

----------------------------------------------------------------------------
(* C1: a power attack (one attacker die, valid indices) by the player to   *)
(* move succeeds iff the attacker die's value >= the defender die's value; *)
(* on success exactly one die, the named defender die, is captured; on     *)
(* failure nothing in the registry changes.                                *)
C1_PowerAttack ==
    [][(Handles("attack") /\ Len(req.attackerDieIndices) = 1
            /\ ByPlayerToMove(req) /\ ValidIndices(req)) =>
        LET before == games[req.gameId]
            after == games'[req.gameId]
        IN  /\ Succeeded <=> AttackerValue(req) >= DefenderValue(req)
            /\ Succeeded =>
                /\ RemovedAt(before.dice[DefenderSlot(before)],
                             after.dice[DefenderSlot(before)], req.defenderDieIndex)
                /\ DiceInPools(after) = DiceInPools(before) - 1
                /\ DiceCaptured(after) = DiceCaptured(before) + 1
            /\ ~Succeeded => games' = games
      ]_vars

C1_Witness ==
    /\ resp.op = "attack" /\ resp.nsel = 1 /\ resp.message = "Attack successful"
    /\ \E g \in GameIds : games[g].captured[1] # <<>>

----------------------------------------------------------------------------
(* C2: a skill attack (two or more attacker dice, valid indices) by the    *)
(* player to move succeeds iff the sum of the named attacker dice values   *)
(* equals the defender die's value; otherwise it fails and nothing in the  *)
(* registry changes.                                                       *)
C2_SkillAttack ==
    [][(Handles("attack") /\ Len(req.attackerDieIndices) >= 2
            /\ ByPlayerToMove(req) /\ ValidIndices(req)) =>
        /\ Succeeded <=> AttackerValue(req) = DefenderValue(req)
        /\ ~Succeeded => (resp'.message = "Attack failed" /\ games' = games)
      ]_vars

C2_Witness ==
    /\ resp.op = "attack" /\ resp.nsel >= 2 /\ resp.message = "Attack successful"
    /\ \E g \in GameIds : DiceCaptured(games[g]) > 0

----------------------------------------------------------------------------
(* C3: a successful attack leaves the attacker's pool length unchanged,    *)
(* removes the die at defenderDieIndex from the defender's pool, appends   *)
(* that die's size to the attacker's captured list and leaves the          *)
(* defender's captured list unchanged.                                     *)
C3_SuccessfulAttackEffect ==
    [][(Handles("attack") /\ Succeeded) =>
        LET before == games[req.gameId]
            after == games'[req.gameId]
            att == AttackerSlot(before)
            def == DefenderSlot(before)
        IN  /\ Len(after.dice[att]) = Len(before.dice[att])
            /\ RemovedAt(before.dice[def], after.dice[def], req.defenderDieIndex)
            /\ after.captured[att] =
                  Append(before.captured[att], before.dice[def][req.defenderDieIndex + 1].size)
            /\ after.captured[def] = before.captured[def]
      ]_vars

C3_Witness ==
    /\ resp.op = "attack" /\ resp.message = "Attack successful"
    /\ \E g \in GameIds : Len(games[g].captured[1]) >= 1 /\ Len(games[g].captured[2]) >= 1

----------------------------------------------------------------------------
(* C4: currentPlayer does not change when a request is rejected or fails   *)
(* (a failed attack, an attack by the wrong player, on an unknown game or  *)
(* with invalid indices, a join), and it switches to the other player on   *)
(* every successful attack that leaves the defender's pool non-empty.      *)
C4_TurnChanges ==
    [][/\ ((Handles("attack") /\ ~Succeeded) \/ Handles("join")) =>
            /\ DOMAIN games' = GameIds
            /\ \A g \in GameIds : games'[g].currentPlayer = games[g].currentPlayer
       /\ (Handles("attack") /\ Succeeded
               /\ games'[req.gameId].dice[DefenderSlot(games[req.gameId])] # <<>>) =>
            games'[req.gameId].currentPlayer = 1 - games[req.gameId].currentPlayer
      ]_vars

C4_Witness ==
    /\ resp.op = "attack" /\ resp.message = "Attack successful"
    /\ \E g \in GameIds : games[g].currentPlayer = 1 /\ games[g].dice[1] # <<>>

----------------------------------------------------------------------------
(* C6: an attack on an existing game by a caller who is not in the slot at *)
(* currentPlayer (the other player, or an identity in neither slot) is     *)
(* answered "It is not your turn" and changes nothing.                     *)
C6_NotYourTurn ==
    [][(Handles("attack") /\ req.gameId \in GameIds /\ ~ByPlayerToMove(req)) =>
        /\ resp'.message = "It is not your turn"
        /\ games' = games
      ]_vars

C6_Witness ==
    /\ resp.op = "attack" /\ resp.message = "It is not your turn"
    /\ \E g \in GameIds : games[g].players[2] # NULL /\ DiceCaptured(games[g]) > 0

----------------------------------------------------------------------------
(* C5: a successful attack that captures the defender's last die ends the  *)
(* round: currentPlayer is not toggled by it, the game is marked round     *)
(* over, the attacker's wins go up by one and the defender's stay.         *)
(* Stated for the power attacks on games whose dice all show at least 1.   *)
C5_LastCaptureEndsRound ==
    [][(Handles("attack") /\ Succeeded
            /\ Len(req.attackerDieIndices) = 1 /\ NoZeroValue(games[req.gameId])
            /\ games'[req.gameId].dice[DefenderSlot(games[req.gameId])] = <<>>) =>
        LET before == games[req.gameId]
            after == games'[req.gameId]
        IN  /\ after.currentPlayer = before.currentPlayer
            /\ "isRoundOver" \in DOMAIN after /\ after.isRoundOver
            /\ "wins" \in DOMAIN after /\ "wins" \in DOMAIN before
            /\ after.wins[AttackerSlot(before)] = before.wins[AttackerSlot(before)] + 1
            /\ after.wins[DefenderSlot(before)] = before.wins[DefenderSlot(before)]
      ]_vars

----------------------------------------------------------------------------
(* C7: once a pool of a started game is empty, every attack on the game is *)
(* rejected with a phase error and changes nothing.                        *)

\* both players have joined and one of the pools is empty
PoolEmptied(game) ==
    /\ game.players[1] # NULL /\ game.players[2] # NULL
    /\ (game.dice[1] = <<>> \/ game.dice[2] = <<>>)

C7_RoundOverRejectsAttacks ==
    [][(Handles("attack") /\ req.gameId \in GameIds /\ PoolEmptied(games[req.gameId])) =>
        /\ resp'.message = "RoundAlreadyOver"
        /\ games' = games
      ]_vars

----------------------------------------------------------------------------
(* C8: startNextRound is accepted only when the round is over; it then     *)
(* rolls both pools afresh with the starting face counts, empties both     *)
(* captured lists and clears round-over; otherwise it changes nothing.     *)
C8_StartNextRound ==
    [][Handles("startNextRound") =>
        IF PoolEmptied(games[req.gameId])
          THEN LET after == games'[req.gameId]
               IN  /\ \A slot \in 1 .. 2 :
                        /\ Len(after.dice[slot]) = Len(StartingDice)
                        /\ \A i \in 1 .. Len(StartingDice) :
                              after.dice[slot][i].size = StartingDice[i]
                        /\ after.captured[slot] = <<>>
                   /\ ~PoolEmptied(after)
          ELSE games' = games
      ]_vars

----------------------------------------------------------------------------
(* C9: a pass by the player to move is accepted exactly when no attack of  *)
(* theirs would succeed (no single die with value >= a defender die's      *)
(* value, no set of two or more dice summing to a defender die's value);   *)
(* an accepted pass toggles currentPlayer and changes nothing else; a pass *)
(* while an attack would succeed is answered PassNotAllowed and changes    *)
(* nothing.                                                                *)

\* the values of the dice of a pool, and the sums of its sets of two or more dice
ValuesOf(pool) == {pool[i].value : i \in 1 .. Len(pool)}
RECURSIVE TotalOf(_, _)
TotalOf(pool, I) ==
    IF I = {} THEN 0
    ELSE LET i == CHOOSE x \in I : TRUE IN pool[i].value + TotalOf(pool, I \ {i})
SkillSumsOf(pool) ==
    {TotalOf(pool, I) : I \in {J \in SUBSET (1 .. Len(pool)) : Cardinality(J) >= 2}}

SomeAttackWouldSucceed(game) ==
    LET mine == game.dice[AttackerSlot(game)]
        theirs == ValuesOf(game.dice[DefenderSlot(game)])
    IN  \/ \E a \in ValuesOf(mine), v \in theirs : a >= v
        \/ SkillSumsOf(mine) \cap theirs # {}

----------------------------------------------------------------------------
(* C10: in every state where both players have joined and both pools are   *)
(* non-empty, the player to move has an accepted action that hands the     *)
(* turn on: an attack that succeeds (the server accepts no pass: it        *)
(* answers any other action "Action not found").                           *)

\* an upper bound of every die value
MaxValue == 20

RECURSIVE PickSums(_, _)
\* the sums, up to MaxValue, of n values picked from vals with repetition
PickSums(vals, n) ==
    IF n = 0 THEN {0}
    ELSE {s + v : s \in PickSums(vals, n - 1), v \in vals} \cap (0 .. MaxValue)

\* performAttack accepts some selection of n dice (an index may repeat) against
\* some defender die
SomeAttackIsAccepted(game) ==
    LET mine == ValuesOf(game.dice[AttackerSlot(game)])
        theirs == ValuesOf(game.dice[DefenderSlot(game)])
    IN  \E n \in 0 .. MaxValue : \E s \in PickSums(mine, n) : \E v \in theirs :
            attackSucceeds(n, s, v)

InProgress(game) ==
    /\ game.players[1] # NULL /\ game.players[2] # NULL
    /\ game.dice[1] # <<>> /\ game.dice[2] # <<>>

\* stated for the games whose dice all show at least 1: a game that is stuck
\* without any die of value 0 refutes the claim as it stands
C10_NeverStuck ==
    \A g \in GameIds :
        (InProgress(games[g]) /\ NoZeroValue(games[g])) => SomeAttackIsAccepted(games[g])

----------------------------------------------------------------------------
(* C11: joinGame on a game that awaits an opponent (slot 0 filled, slot 1  *)
(* empty), by an identity that is not in it, puts that identity in slot 1  *)
(* and gives slot 1 a pool of five dice with the starting face counts;     *)
(* both slots are then filled; slot 0's identity and pool, both captured   *)
(* lists and currentPlayer are unchanged.                                  *)

AwaitingOpponent(game) == game.players[1] # NULL /\ game.players[2] = NULL

C11_JoinGame ==
    [][(Handles("join") /\ req.gameId \in GameIds /\ AwaitingOpponent(games[req.gameId])
            /\ req.playerId \in PlayerIds /\ req.playerId # games[req.gameId].players[1]) =>
        LET before == games[req.gameId]
            after == games'[req.gameId]
        IN  /\ resp'.status = 200
            /\ after.players = <<before.players[1], req.playerId>>
            /\ after.players[1] # NULL /\ after.players[2] # NULL
            /\ Len(after.dice[2]) = Len(StartingDice)
            /\ \A i \in 1 .. Len(StartingDice) : after.dice[2][i].size = StartingDice[i]
            /\ after.dice[1] = before.dice[1]
            /\ after.captured = before.captured
            /\ after.currentPlayer = before.currentPlayer
      ]_vars

C11_Witness ==
    /\ resp.op = "join" /\ resp.status = 200
    /\ \E g \in GameIds : games[g].players = <<"a", "b">> /\ Len(games[g].dice[2]) = 5

----------------------------------------------------------------------------
(* C12: joinGame fails with an error and changes nothing when the game id  *)
(* is unknown, when the joiner already occupies a slot of the game, or     *)
(* when both slots are filled; and whatever request is handled, a slot     *)
(* that holds an identity holds the same identity afterwards.              *)

Unjoinable(r) ==
    \/ r.gameId \notin GameIds
    \/ r.playerId \in {games[r.gameId].players[1], games[r.gameId].players[2]}
    \/ (games[r.gameId].players[1] # NULL /\ games[r.gameId].players[2] # NULL)

C12_JoinErrorsAndFixedSlots ==
    [][/\ (Handles("join") /\ Unjoinable(req)) => (resp'.status # 200 /\ games' = games)
       /\ \A g \in GameIds : \A slot \in 1 .. 2 :
             games[g].players[slot] # NULL =>
                (g \in DOMAIN games' /\ games'[g].players[slot] = games[g].players[slot])
      ]_vars

----------------------------------------------------------------------------
(* C13: an attack with an empty attacker selection is rejected without     *)
(* being resolved (it is answered neither as a successful nor as a failed  *)
(* attack) and changes nothing, whatever the dice show.  Stated for the    *)
(* games whose dice all show at least 1.                                   *)

Resolved == {"Attack successful", "Attack failed"}

C13_EmptySelectionRejected ==
    [][(Handles("attack") /\ req.gameId \in GameIds /\ req.attackerDieIndices = <<>>
            /\ NoZeroValue(games[req.gameId])) =>
        (resp'.message \notin Resolved /\ games' = games)
      ]_vars

----------------------------------------------------------------------------
(* C14: an attack whose attacker selection names a die index more than     *)
(* once is rejected: it never succeeds (a die's value is not counted twice *)
(* toward a skill sum) and changes nothing.  Stated for the games whose    *)
(* dice all show at least 1.                                               *)

HasDuplicate(sel) == \E j, k \in 1 .. Len(sel) : j # k /\ sel[j] = sel[k]

C14_DuplicateIndexRejected ==
    [][(Handles("attack") /\ req.gameId \in GameIds /\ HasDuplicate(req.attackerDieIndices)
            /\ NoZeroValue(games[req.gameId])) =>
        (resp'.message # "Attack successful" /\ games' = games)
      ]_vars

----------------------------------------------------------------------------
(* C15: an attack by the player to move that names an attacker index       *)
(* outside the attacker's pool or a defender index outside the defender's  *)
(* pool is answered with a result returned to the caller (the handler does *)
(* not throw), is not resolved, and changes nothing.  Stated for the       *)
(* attacks with at least one attacker die on games in progress.            *)
C15_InvalidDieIndex ==
    [][(Handles("attack") /\ ByPlayerToMove(req) /\ ~ValidIndices(req)
            /\ InProgress(games[req.gameId]) /\ Len(req.attackerDieIndices) >= 1) =>
        (resp'.status = 200 /\ resp'.message \notin Resolved /\ games' = games)
      ]_vars

----------------------------------------------------------------------------
(* C17: createGame hands out an id no game of the registry has: a handled  *)
(* create adds one game and leaves every game of the registry as it was;   *)
(* and a game changes only by a join or an attack on its own id.           *)
C17_CreateGameUniqueIds ==
    [][/\ Handles("create") =>
            /\ Cardinality(DOMAIN games') = Cardinality(GameIds) + 1
            /\ \A g \in GameIds : g \in DOMAIN games' /\ games'[g] = games[g]
       /\ \A g \in GameIds :
            (g \notin DOMAIN games' \/ games'[g] # games[g]) =>
                (req.op \in {"join", "attack"} /\ req.gameId = g)
      ]_vars

----------------------------------------------------------------------------
(* C18: every die of every pool has a size >= 1 and a value in 1..size.    *)
C18_DieValueInRange ==
    \A g \in GameIds : \A slot \in 1 .. 2 : \A i \in 1 .. Len(games[g].dice[slot]) :
        /\ games[g].dice[slot][i].size >= 1
        /\ games[g].dice[slot][i].value \in 1 .. games[g].dice[slot][i].size

----------------------------------------------------------------------------
(* C19: the open-games listing holds exactly the games with an empty       *)
(* player slot; a game is listed from its creation until a second player   *)
(* joins it, and once it is no longer listed it is never listed again.     *)
C19_OpenGamesListing ==
    [][/\ getOpenGames =
            {g \in GameIds : games[g].players[1] = NULL \/ games[g].players[2] = NULL}
       /\ Handles("create") => DOMAIN games' \ GameIds \subseteq getOpenGames'
       /\ \A g \in GameIds : g \notin getOpenGames => g \notin getOpenGames'
      ]_vars

----------------------------------------------------------------------------
(* C20: a successful attack rerolls the attacker dice named in the attack, *)
(* each keeping its size and position; every attacker die that is not      *)
(* named keeps its size, value and position; the defender's remaining dice *)
(* keep size, value and order, those after the captured die moving down by *)
(* one index.                                                              *)

\* the values a roll of a die of the given size can show
RollValues(size) == {rollDie(size, u).value : u \in RandomUnits}

Named(sel) == {sel[k] : k \in 1 .. Len(sel)}

C20_RerollFrame ==
    [][(Handles("attack") /\ Succeeded) =>
        LET before == games[req.gameId]
            after == games'[req.gameId]
            att == AttackerSlot(before)
            def == DefenderSlot(before)
        IN  /\ Len(after.dice[att]) = Len(before.dice[att])
            /\ \A i \in 1 .. Len(before.dice[att]) :
                  /\ after.dice[att][i].size = before.dice[att][i].size
                  /\ IF (i - 1) \in Named(req.attackerDieIndices)
                        THEN after.dice[att][i].value \in RollValues(before.dice[att][i].size)
                        ELSE after.dice[att][i] = before.dice[att][i]
            /\ RemovedAt(before.dice[def], after.dice[def], req.defenderDieIndex)
      ]_vars

C20_Witness ==
    /\ resp.op = "attack" /\ resp.message = "Attack successful" /\ resp.nsel >= 1
    /\ \E g \in GameIds :
          /\ games[g].currentPlayer = 1
          /\ Len(games[g].dice[1]) = 5 /\ Len(games[g].dice[2]) = 4

----------------------------------------------------------------------------
(* C16: two attack handlers on the same game that overlap (both wait for   *)
(* their request body before either resolves its attack) leave the game in *)
(* a state, and give the two answers, that resolving the two attacks one   *)
(* after the other in some order gives; every successful attack of the two *)
(* is one capture and one turn toggle, none lost and none applied twice;   *)
(* and of two attacks of the same player at most one succeeds.             *)

\* the games that resolving request r on game can give, when it is answered by
\* message: none when the answer to r on game is another message
ResolvedTo(game, r, message) ==
    LET registry == [g \in {r.gameId} |-> game]
    IN  IF attackMessageIn(registry, r.gameId, r.playerId,
                           r.attackerDieIndices, r.defenderDieIndex) # message
          THEN {}
        ELSE IF message = "Attack successful"
          THEN {attackedGame(game, indexOf(game.players, r.playerId),
                             r.attackerDieIndices, r.defenderDieIndex, us) :
                    us \in [1 .. Len(r.attackerDieIndices) -> RandomUnits]}
        ELSE {game}

\* the games that resolving first h1's and then h2's attack on game can give,
\* with the answers the two handlers gave
OneAfterTheOther(game, h1, h2) ==
    UNION {ResolvedTo(g1, h2.request, h2.answer.message) :
              g1 \in ResolvedTo(game, h1.request, h1.answer.message)}

Successes == Cardinality({k \in 1 .. Len(handlers) : handlers[k].answer.message = "Attack successful"})

BothAnswered ==
    /\ Len(handlers) = 2 /\ Pending = {}
    /\ handlers[1].request.gameId = handlers[2].request.gameId
    /\ handlers[1].request.gameId \in GameIds

C16_AttacksSerialized ==
    BothAnswered =>
        LET g == handlers[1].request.gameId
            base == handlers[1].seen[g]
        IN  /\ \/ games[g] \in OneAfterTheOther(base, handlers[1], handlers[2])
               \/ games[g] \in OneAfterTheOther(base, handlers[2], handlers[1])
            /\ DiceCaptured(games[g]) = DiceCaptured(base) + Successes
            /\ DiceInPools(games[g]) = DiceInPools(base) - Successes
            /\ games[g].currentPlayer = (base.currentPlayer + Successes) % 2
            /\ handlers[1].request.playerId = handlers[2].request.playerId => Successes <= 1

\* two overlapping attacks of the same player: one succeeded, the other was
\* answered that it is not the player's turn
C16_Witness ==
    /\ BothAnswered
    /\ handlers[1].request.playerId = handlers[2].request.playerId
    /\ {handlers[1].answer.message, handlers[2].answer.message}
          = {"Attack successful", "It is not your turn"}

----------------------------------------------------------------------------
(* C21: every entry of every pool is a well-formed die (a size and a       *)
(* value, the size one of the starting face counts), and within a round a  *)
(* pool's length never increases: it changes only by going down by one     *)
(* when one of its dice is captured.  A round starts when createGame makes *)
(* the game and when joinGame gives an empty slot its pool.                *)

StartingSizes == {StartingDice[i] : i \in 1 .. Len(StartingDice)}

WellFormedDie(die) ==
    /\ DOMAIN die = {"size", "value"}
    /\ die.size \in StartingSizes
    /\ die.value \in Int

WellFormedPools ==
    \A g \in GameIds : \A slot \in 1 .. 2 :
        \A i \in 1 .. Len(games[g].dice[slot]) : WellFormedDie(games[g].dice[slot][i])

C21_WellFormedPools ==
    [][/\ WellFormedPools'
       /\ ~Handles("create") =>
            \A g \in GameIds : \A slot \in 1 .. 2 :
                LET before == Len(games[g].dice[slot])
                    after == Len(games'[g].dice[slot])
                IN  games[g].players[slot] # NULL =>
                        /\ after <= before
                        /\ after # before =>
                              /\ after = before - 1
                              /\ Handles("attack") /\ Succeeded /\ req.gameId = g
                              /\ slot = DefenderSlot(games[g])
      ]_vars

C21_Witness ==
    /\ resp.op = "attack" /\ resp.message = "Attack successful"
    /\ \E g \in GameIds : Len(games[g].dice[1]) = 3 /\ Len(games[g].dice[2]) = 2

----------------------------------------------------------------------------
(* C22: while a game awaits its opponent (slot 1 empty), no attack by any  *)
(* caller with any indices changes anything: the creator's pool, both      *)
(* captured lists and the turn stay as createGame left them.               *)
C22_NoAttackWhileAwaiting ==
    [][(Handles("attack") /\ req.gameId \in GameIds
            /\ games[req.gameId].players[2] = NULL) =>
        /\ ~Succeeded
        /\ games' = games
        /\ games[req.gameId].captured = <<<<>>, <<>>>>
        /\ games[req.gameId].currentPlayer = 0
        /\ Len(games[req.gameId].dice[1]) = Len(StartingDice)
      ]_vars

C22_Witness ==
    /\ resp.op = "attack" /\ resp.message = "TypeError" /\ resp.nsel = 1
    /\ \E g \in GameIds : games[g].players[2] = NULL

----------------------------------------------------------------------------
(* C24: once both players have joined, for each player the sizes in the    *)
(* player's captured list together with the sizes of the dice left in the  *)
(* opponent's pool are the starting face counts, each once; so the         *)
(* player's score is 48 minus the sum of the sizes left in the opponent's  *)
(* pool.                                                                   *)

\* how often size s occurs in a list of sizes, in a pool
TimesIn(sizes, s) == Cardinality({i \in 1 .. Len(sizes) : sizes[i] = s})
TimesInPool(pool, s) == Cardinality({i \in 1 .. Len(pool) : pool[i].size = s})

RECURSIVE SumOfSizes(_)
SumOfSizes(sizes) == IF sizes = <<>> THEN 0 ELSE Head(sizes) + SumOfSizes(Tail(sizes))

RECURSIVE SumOfPoolSizes(_)
SumOfPoolSizes(pool) == IF pool = <<>> THEN 0 ELSE Head(pool).size + SumOfPoolSizes(Tail(pool))

C24_CapturedAndRemaining ==
    \A g \in GameIds :
        (games[g].players[1] # NULL /\ games[g].players[2] # NULL) =>
            \A slot \in 1 .. 2 :
                LET captured == games[g].captured[slot]
                    theirs == games[g].dice[3 - slot]
                IN  /\ Len(captured) + Len(theirs) = Len(StartingDice)
                    /\ \A s \in StartingSizes :
                          TimesIn(captured, s) + TimesInPool(theirs, s) = 1
                    /\ SumOfSizes(captured) = 48 - SumOfPoolSizes(theirs)

C24_Witness ==
    \E g \in GameIds :
        /\ games[g].players[2] # NULL
        /\ Len(games[g].captured[1]) = 2 /\ Len(games[g].dice[2]) = 3
        /\ Len(games[g].captured[2]) = 1

----------------------------------------------------------------------------
(* C23: the game page never sends stale indices: the attacker indices of   *)
(* every attack it sends are positions of the player's own pool, and the   *)
(* defender index a position of the opponent's pool, in the snapshot the   *)
(* page holds when it sends the attack.  Stated for the attacks sent with  *)
(* a defender die selected.                                                *)

\* this step is the page sending an attack
PageSendsAttack ==
    /\ req = NoReq /\ req'.op = "attack" /\ req'.playerId = PagePlayer
    /\ client.selectedDice # <<>> /\ client'.selectedDice = <<>>

C23_NoStaleIndices ==
    [][(PageSendsAttack /\ client.selectedDefenderDie # NoIndex) =>
        LET gameState == client.gameState
            mine == gameState.dice[indexOf(gameState.players, PagePlayer) + 1]
            theirs == gameState.dice[2 - indexOf(gameState.players, PagePlayer)]
        IN  /\ \A k \in 1 .. Len(req'.attackerDieIndices) :
                  req'.attackerDieIndices[k] \in 0 .. (Len(mine) - 1)
            /\ req'.defenderDieIndex \in 0 .. (Len(theirs) - 1)
      ]_vars

----------------------------------------------------------------------------
(* C25: the polling page never goes back in time: the snapshot it holds is *)
(* never replaced by a different snapshot that the server produced before  *)
(* the one it holds.                                                       *)
C25_NeverBackInTime == ~polls.wentBack

====
